---- MODULE Spec2Model ----
(***************************************************************************)
(* Model of src/app.js: the DOMContentLoaded controller that wires the     *)
(* search button and the game cards to the EmulatorJS loader and switches  *)
(* the page between the menu view and the game view.                       *)
(*                                                                         *)
(* The page is modelled as a record of the DOM facts and window globals    *)
(* the script reads or writes.  Every event listener registered by the     *)
(* script is an operator from page record to page record; an action of    *)
(* the model is the dispatch of one event, which runs all listeners the    *)
(* target element carries, in registration order.                          *)
(*                                                                         *)
(* A session container that has been removed from #launch is reachable     *)
(* only from the onerror closure of its loader script.  The model keeps the *)
(* container built last, mounted or removed, and of the older ones only     *)
(* how many still have their loader in flight.                              *)
(***************************************************************************)
EXTENDS Integers, Sequences, FiniteSets, TLC

VARIABLES
    markup,           \* the page as loaded: cards, logo, controls (never changes)
    launch,           \* what #launch holds: "menu", "game" or "empty"
    gen,              \* how many times the menu markup has been re-parsed into #launch
    built,            \* how many session containers have been built
    session,          \* the session container built last; it is in #launch iff launch = "game"
    stale,            \* older, removed containers whose loader script is still in flight
    loaderScripts,    \* loader script elements in the document
    config,           \* the window.EJS_* globals
    logoStyle,        \* the logo's style attribute now
    controlsDisplay,  \* .controls style.display
    placeholder,      \* #search placeholder
    timers,           \* pending setTimeout callbacks (the captured ph), oldest first
    focus,            \* "gameBtn" when the #gameBtn found at load holds the focus, else "none"
    fullscreenEl,     \* document.fullscreenElement: "none", "wrapper" or "other"
    engine,           \* window.EJS_emulator: "none", "nohook" (no exit function), "hook"
    uncaught,         \* some listener has ended with an uncaught exception
    lastEvent         \* the event dispatched last and what came of it

vars == <<markup, launch, gen, built, session, stale, loaderScripts, config, logoStyle,
          controlsDisplay, placeholder, timers, focus, fullscreenEl, engine,
          uncaught, lastEvent>>

----------------------------------------------------------------------------
(* Bounds *)

MaxSessions == 2
MaxTimers == 2

----------------------------------------------------------------------------
(* Values *)

Absent == "<absent>"
Unset == "<unset>"
JsTrue == "true"
DefaultRom == "/[Poke-Nexus] Pokemon - Edicion Rojo Fuego (Esp).gba"
DefaultTitle == "Pokemon"
PathToData == "jjjjj/EmulatorJS-main/data/"
NotFoundMsg == "No encontrado"
Placeholder0 == "Buscar"

Cards == {1, 2}
FirstCard == 1
GameBtn == 1

Keys == { " ", "Enter", "a" }

\* The pages the model is run on.  rom, title: the data attributes of a card
\* (Absent: no attribute); inLaunch: the card is a descendant of #launch;
\* logo: the style attribute of #title-logo; #gameBtn is the first card and
\* label is its innerText.
Card(rom, title, inLaunch) == [rom |-> rom, title |-> title, inLaunch |-> inLaunch]

\* gameBtn.innerText as the markup gives it
GameBtnLabel == <<"R","o","j","o"," ","F","u","e","g","o">>

Markups ==
    { [ cards |-> <<Card("/a.gba", "Foo", TRUE), Card("/b.gba", "Bar", TRUE)>>,
        hasLogo |-> TRUE, logoAttr |-> Absent, hasControls |-> TRUE,
        label |-> GameBtnLabel ],
      [ cards |-> <<Card(Absent, Absent, TRUE), Card("/b.gba", "Bar", FALSE)>>,
        hasLogo |-> TRUE, logoAttr |-> "width:300px", hasControls |-> TRUE,
        label |-> GameBtnLabel ],
      [ cards |-> <<Card("", "Foo", FALSE), Card("/b.gba", "Bar", TRUE)>>,
        hasLogo |-> TRUE, logoAttr |-> "", hasControls |-> TRUE,
        label |-> GameBtnLabel ],
      [ cards |-> <<Card("/a.gba", "", TRUE), Card(Absent, "Bar", TRUE)>>,
        hasLogo |-> FALSE, logoAttr |-> Absent, hasControls |-> FALSE,
        label |-> GameBtnLabel ] }

cards == markup.cards
hasLogo == markup.hasLogo
hasControls == markup.hasControls
gameBtnInnerText == markup.label

----------------------------------------------------------------------------
(* Strings of the search box: sequences of one-character strings. *)

UpperCase == <<"A","B","C","D","E","F","G","H","I","J","K","L","M",
               "N","O","P","Q","R","S","T","U","V","W","X","Y","Z">>
LowerCase == <<"a","b","c","d","e","f","g","h","i","j","k","l","m",
               "n","o","p","q","r","s","t","u","v","w","x","y","z">>
WhiteSpace == { " ", "\t", "\n" }

LowerChar(c) ==
    IF \E i \in 1..Len(UpperCase) : UpperCase[i] = c
    THEN LowerCase[CHOOSE i \in 1..Len(UpperCase) : UpperCase[i] = c]
    ELSE c

\* String.prototype.toLowerCase
toLowerCase(str) == [i \in 1..Len(str) |-> LowerChar(str[i])]

\* String.prototype.trim
trim(str) ==
    LET keep == { i \in 1..Len(str) : str[i] \notin WhiteSpace }
    IN IF keep = {} THEN <<>>
       ELSE LET lo == CHOOSE i \in keep : \A j \in keep : i <= j
                hi == CHOOSE i \in keep : \A j \in keep : j <= i
            IN SubSeq(str, lo, hi)

\* String.prototype.includes
includes(str, sub) ==
    \E i \in 1..(Len(str) - Len(sub) + 1) : SubSeq(str, i, i + Len(sub) - 1) = sub

Rojo == <<"r","o","j","o">>
Pokemon == <<"p","o","k","e","m","o","n">>
Buscar == <<"b","u","s","c","a","r">>

\* what the user may have typed into #search
Queries == { <<" ">>, <<" ","F","U","E"," ">>, <<"p","o","k","e">> }

\* SearchMatches with gameBtn.innerText compared as it is written
SearchMatches_LabelAsIs(value, label) ==
    LET q == toLowerCase(trim(value))
    IN \/ q = <<>>
       \/ includes(label, q)
       \/ includes(q, Rojo)
       \/ includes(q, Pokemon)
       \/ includes(q, Buscar)

\* lines 27-34: TRUE when the click on #searchBtn ends in gameBtn.focus()
SearchMatches(value, label) ==
    LET q == toLowerCase(trim(value))
    IN \/ q = <<>>
       \/ includes(toLowerCase(label), q)
       \/ includes(q, Rojo)
       \/ includes(q, Pokemon)
       \/ includes(q, Buscar)

----------------------------------------------------------------------------
(* The page: the mutable DOM facts and globals as one record. *)

Page ==
    [ launch |-> launch, gen |-> gen, built |-> built, session |-> session, stale |-> stale,
      loaderScripts |-> loaderScripts, config |-> config,
      logoStyle |-> logoStyle, controlsDisplay |-> controlsDisplay,
      placeholder |-> placeholder, timers |-> timers, focus |-> focus,
      fullscreenEl |-> fullscreenEl, engine |-> engine, uncaught |-> uncaught,
      out |-> "", exitCalls |-> 0 ]

Becomes(p) ==
    /\ launch' = p.launch
    /\ gen' = p.gen
    /\ built' = p.built
    /\ session' = p.session
    /\ stale' = p.stale
    /\ loaderScripts' = p.loaderScripts
    /\ config' = p.config
    /\ logoStyle' = p.logoStyle
    /\ controlsDisplay' = p.controlsDisplay
    /\ placeholder' = p.placeholder
    /\ timers' = p.timers
    /\ focus' = p.focus
    /\ fullscreenEl' = p.fullscreenEl
    /\ engine' = p.engine
    /\ uncaught' = p.uncaught
    /\ UNCHANGED markup

NoConfig ==
    [ player |-> Unset, gameUrl |-> Unset, gameName |-> Unset, core |-> Unset,
      pathtodata |-> Unset, startOnLoaded |-> Unset,
      disableDatabases |-> Unset, disableLocalStorage |-> Unset ]

\* id: the container is the id-th built; card: the card the globals were
\* derived from (0: none yet); bound: the two buttons have their listeners;
\* script: the loader script of this container ("none", "loading", "loaded",
\* "failed"); cfgAtInsert: the globals as they were when that script was
\* appended; errs: error messages inside its #game
NewSession(id) ==
    [ id |-> id, card |-> 0, bound |-> FALSE, script |-> "none",
      cfgAtInsert |-> NoConfig, errs |-> 0 ]

NoSession == NewSession(0)

\* the logo's style attribute: present or not, its text as loaded, and whether
\* the four declarations of enterGameUIState are set on top of it
LogoStyleOf(attr) ==
    [ present |-> attr # Absent, base |-> IF attr = Absent THEN "" ELSE attr, compact |-> FALSE ]

\* line 18: launchSection.innerHTML as read at load: the menu markup
originalLaunchHTML == "menu"

\* line 20: titleLogo.getAttribute("style") || ""
originalLogoStyle == IF hasLogo /\ markup.logoAttr # Absent THEN markup.logoAttr ELSE ""

\* document.getElementById("game"): the mount element exists only inside the mounted container
GameMounted(p) == p.launch = "game"

\* a card element is in the document
Attached(p, i) == ~cards[i].inLaunch \/ p.launch = "menu"

----------------------------------------------------------------------------
(* The functions of app.js, as page transformers. *)

\* enterGameUIState without line 58
enterGameUIState_ControlsShown(p) ==
    [p EXCEPT !.logoStyle = IF hasLogo
                            THEN [present |-> TRUE, base |-> @.base, compact |-> TRUE]
                            ELSE @]

\* lines 57-65
enterGameUIState(p) ==
    [p EXCEPT !.controlsDisplay = IF hasControls THEN "none" ELSE @,
              !.logoStyle = IF hasLogo
                            THEN [present |-> TRUE, base |-> @.base, compact |-> TRUE]
                            ELSE @]

\* The content of #launch is replaced: a #gameBtn inside it loses the focus,
\* a fullscreen element inside it ends fullscreen.
ClearLaunch(p) ==
    [p EXCEPT !.launch = "empty",
              !.focus = IF cards[GameBtn].inLaunch THEN "none" ELSE @,
              !.fullscreenEl = IF GameMounted(p) THEN "none" ELSE @]

\* restoreMenuUIState with the branch of lines 72-78 missing
restoreMenuUIState_LogoKept(p) ==
    [ClearLaunch(p) EXCEPT
        !.launch = originalLaunchHTML,
        !.gen = @ + 1,
        !.controlsDisplay = IF hasControls THEN "" ELSE @]

\* lines 68-97.  Lines 80-91: document.getElementById("gameBtn") finds the
\* button and the two listeners are added to it; which listeners an element
\* carries is computed from gen by ClickListeners and KeypressListeners.
restoreMenuUIState(p) ==
    [ClearLaunch(p) EXCEPT
        !.launch = originalLaunchHTML,
        !.gen = @ + 1,
        !.logoStyle = IF hasLogo
                      THEN IF originalLogoStyle # ""
                           THEN [present |-> TRUE, base |-> originalLogoStyle, compact |-> FALSE]
                           ELSE [present |-> FALSE, base |-> "", compact |-> FALSE]
                      ELSE @,
        !.controlsDisplay = IF hasControls THEN "" ELSE @]

\* lines 107-160: the wrapper, the menu bar with its two buttons and the mount
\* element are built and replace the content of #launch
MountSession(p) ==
    [ClearLaunch(p) EXCEPT
        !.launch = "game",
        !.built = @ + 1,
        !.session = NewSession(p.built + 1),
        !.stale = IF p.session.script = "loading" THEN @ + 1 ELSE @]

\* ConfigureGlobals without the fallback of line 164
ConfigureGlobals_NoTitleDefault(p, card) ==
    LET rom == cards[card].rom
        romPath == IF rom = Absent \/ rom = "" THEN DefaultRom ELSE rom
    IN [p EXCEPT !.config = [ player |-> "#game", gameUrl |-> romPath,
                              gameName |-> cards[card].title,
                              core |-> "gba", pathtodata |-> PathToData,
                              startOnLoaded |-> JsTrue, disableDatabases |-> JsTrue,
                              disableLocalStorage |-> JsTrue ],
                !.session.card = card]

\* lines 163-174
ConfigureGlobals(p, card) ==
    LET rom == cards[card].rom
        title == cards[card].title
        romPath == IF rom = Absent \/ rom = "" THEN DefaultRom ELSE rom
        gameTitle == IF title = Absent \/ title = "" THEN DefaultTitle ELSE title
    IN [p EXCEPT !.config = [ player |-> "#game", gameUrl |-> romPath, gameName |-> gameTitle,
                              core |-> "gba", pathtodata |-> PathToData,
                              startOnLoaded |-> JsTrue, disableDatabases |-> JsTrue,
                              disableLocalStorage |-> JsTrue ],
                !.session.card = card]

\* lines 177-188: the script element is appended to body; the engine reads the
\* globals as they are from then on (cfgAtInsert records them)
AppendLoader(p) ==
    [p EXCEPT !.session.script = "loading",
              !.session.cfgAtInsert = p.config,
              !.loaderScripts = @ + 1]

\* lines 191-225: the click listeners of the two buttons
BindControls(p) == [p EXCEPT !.session.bound = TRUE]

\* The argument openEmulator is called with: a card element, the Event object
\* (line 84 registers openEmulator itself as the listener) or nothing (line 88).
CardArg(i) == [kind |-> "card", card |-> i]
EventArg == [kind |-> "event", card |-> 0]
NoArg == [kind |-> "undefined", card |-> 0]

\* openEmulator without line 101
openEmulator_NoGuard(p, arg) ==
    LET cardElement == IF arg.kind = "undefined" THEN CardArg(FirstCard) ELSE arg
        p1 == [MountSession(enterGameUIState(p)) EXCEPT !.out = "opened"]
    IN IF cardElement.kind # "card"
       THEN [p1 EXCEPT !.uncaught = TRUE, !.out = "threw"]
       ELSE BindControls(AppendLoader(ConfigureGlobals(p1, cardElement.card)))

\* openEmulator with line 101 moved below the assignments of lines 163-174
openEmulator_GuardAfterGlobals(p, arg) ==
    LET cardElement == IF arg.kind = "undefined" THEN CardArg(FirstCard) ELSE arg
    IN IF GameMounted(p)
       THEN IF cardElement.kind = "card"
            THEN [ConfigureGlobals(p, cardElement.card) EXCEPT !.out = "guarded"]
            ELSE [p EXCEPT !.uncaught = TRUE, !.out = "threw"]
       ELSE LET p1 == [MountSession(enterGameUIState(p)) EXCEPT !.out = "opened"]
            IN IF cardElement.kind # "card"
               THEN [p1 EXCEPT !.uncaught = TRUE, !.out = "threw"]
               ELSE BindControls(AppendLoader(ConfigureGlobals(p1, cardElement.card)))

\* openEmulator with the script appended (line 188) before lines 163-174
openEmulator_LoaderFirst(p, arg) ==
    IF GameMounted(p) THEN [p EXCEPT !.out = IF @ = "" THEN "guarded" ELSE @]
    ELSE LET cardElement == IF arg.kind = "undefined" THEN CardArg(FirstCard) ELSE arg
             p1 == [MountSession(enterGameUIState(p)) EXCEPT !.out = "opened"]
         IN IF cardElement.kind # "card"
            THEN [p1 EXCEPT !.uncaught = TRUE, !.out = "threw"]
            ELSE BindControls(ConfigureGlobals(AppendLoader(p1), cardElement.card))

\* lines 99-226.  An Event is truthy and has no dataset, so line 163 throws a
\* TypeError after #launch has been replaced.
openEmulator(p, arg) ==
    IF GameMounted(p) THEN [p EXCEPT !.out = IF @ = "" THEN "guarded" ELSE @]
    ELSE LET cardElement == IF arg.kind = "undefined" THEN CardArg(FirstCard) ELSE arg
             p1 == [MountSession(enterGameUIState(p)) EXCEPT !.out = "opened"]
         IN IF cardElement.kind # "card"
            THEN [p1 EXCEPT !.uncaught = TRUE, !.out = "threw"]
            ELSE BindControls(AppendLoader(ConfigureGlobals(p1, cardElement.card)))

\* the listener without lines 206-207
removeLoaderScripts_Kept(p) == p

\* lines 205-207: the script elements whose src starts with
\* window.EJS_pathtodata + "loader.js" are removed; those appended by line 188
\* have the src of line 178
removeLoaderScripts(p) ==
    [p EXCEPT !.loaderScripts = IF p.config.pathtodata = PathToData THEN 0 ELSE @]

\* lines 197-204: window.EJS_emulator.exit() is called if it is a function;
\* what it throws is caught
shutdownEngine(p, hookThrows) ==
    IF p.engine = "hook"
    THEN [p EXCEPT !.exitCalls = @ + 1,
                   !.out = IF hookThrows THEN "hook-threw" ELSE "hook-ok"]
    ELSE [p EXCEPT !.out = "no-hook"]

\* backBtnClick with the call of line 200 outside any try: what the hook
\* throws ends the listener
backBtnClick_HookUnguarded(p, confirmed, hookThrows) ==
    IF ~confirmed THEN [p EXCEPT !.out = "stayed"]
    ELSE IF p.engine = "hook" /\ hookThrows
         THEN [p EXCEPT !.exitCalls = @ + 1, !.out = "hook-threw", !.uncaught = TRUE]
         ELSE restoreMenuUIState(removeLoaderScripts(shutdownEngine(p, hookThrows)))

\* backBtnClick without the test of line 193
backBtnClick_AnswerIgnored(p, confirmed, hookThrows) ==
    restoreMenuUIState(removeLoaderScripts(shutdownEngine(p, hookThrows)))

\* lines 191-212: the click listener of the Exit button; confirmed is what
\* confirm() returned
backBtnClick(p, confirmed, hookThrows) ==
    IF confirmed
    THEN restoreMenuUIState(removeLoaderScripts(shutdownEngine(p, hookThrows)))
    ELSE [p EXCEPT !.out = "stayed"]

\* fullBtnClick without the try of lines 216-224: a rejected promise is unhandled
fullBtnClick_NoCatch(p, ok) ==
    IF ok
    THEN [p EXCEPT !.fullscreenEl = IF @ = "none" THEN "wrapper" ELSE "none",
                   !.out = IF p.fullscreenEl = "none" THEN "requested" ELSE "exited"]
    ELSE [p EXCEPT !.uncaught = TRUE,
                   !.out = IF p.fullscreenEl = "none" THEN "request-failed" ELSE "exit-failed"]

\* lines 215-225: the click listener of the Fullscreen button; ok is whether
\* the browser grants the request or the exit (a rejection is caught, line 222)
fullBtnClick(p, ok) ==
    IF p.fullscreenEl = "none"
    THEN [p EXCEPT !.fullscreenEl = IF ok THEN "wrapper" ELSE @,
                   !.out = IF ok THEN "requested" ELSE "request-failed"]
    ELSE [p EXCEPT !.fullscreenEl = IF ok THEN "none" ELSE @,
                   !.out = IF ok THEN "exited" ELSE "exit-failed"]

\* script.onerror looking the mount element up when it runs,
\* document.getElementById("game"), instead of using its own gameDiv
scriptOnError_LooksUpMount(p, latest) ==
    IF GameMounted(p) THEN [p EXCEPT !.session.errs = @ + 1, !.out = "shown"]
    ELSE [p EXCEPT !.uncaught = TRUE, !.out = "threw"]

\* script.onerror with only the console.error of line 186
scriptOnError_LogOnly(p, latest) == [p EXCEPT !.out = "logged"]

\* lines 180-187: script.onerror; gameDiv is the mount element of the
\* container the script was created with, in the document or not; latest:
\* that container is the one built last
scriptOnError(p, latest) ==
    IF latest THEN [p EXCEPT !.session.errs = @ + 1, !.out = "shown"]
    ELSE [p EXCEPT !.out = "shown-stale"]

\* gameBtn.focus(), gameBtn being the element found at line 11: focusing an
\* element that is no longer in the document does nothing
focusGameBtn(p) ==
    IF ~cards[GameBtn].inLaunch \/ (p.launch = "menu" /\ p.gen = 0)
    THEN [p EXCEPT !.focus = "gameBtn", !.out = "focus"]
    ELSE [p EXCEPT !.out = "focus-detached"]

\* searchBtnClick clearing the pending timeouts when the query matches,
\* without writing the placeholder back
searchBtnClick_MatchCancelsTimers(p, value) ==
    IF SearchMatches(value, gameBtnInnerText)
    THEN [focusGameBtn(p) EXCEPT !.timers = <<>>]
    ELSE [p EXCEPT !.placeholder = NotFoundMsg,
                   !.timers = Append(@, p.placeholder),
                   !.out = "notfound"]

\* lines 26-42: the click listener of #searchBtn; value is searchInput.value
searchBtnClick(p, value) ==
    IF SearchMatches(value, gameBtnInnerText)
    THEN focusGameBtn(p)
    ELSE [p EXCEPT !.placeholder = NotFoundMsg,
                   !.timers = Append(@, p.placeholder),
                   !.out = "notfound"]

\* line 40: the callback of setTimeout
timerCallback(p) ==
    [p EXCEPT !.placeholder = Head(p.timers), !.timers = Tail(@)]

\* line 47 and line 84
cardClickListener(p, i) == openEmulator(p, CardArg(i))
restoredClickListener(p) == openEmulator(p, EventArg)

\* lines 48-53 and lines 85-90
cardKeypressListener(p, i, key) ==
    IF key = " " \/ key = "Enter" THEN openEmulator(p, CardArg(i)) ELSE p
restoredKeypressListener(p, key) ==
    IF key = " " \/ key = "Enter" THEN openEmulator(p, NoArg) ELSE p

\* The listeners the element of card i carries, in registration order.  An
\* element parsed from the initial markup has those of lines 47-48; one
\* re-parsed by line 70 has none but the #gameBtn found by line 82.  The same
\* function is registered once however often line 84 adds it; each arrow
\* function of line 85 is a new listener.
Repeat(x, n) == [k \in 1..n |-> x]

ClickListeners(p, i) ==
    IF cards[i].inLaunch
    THEN IF p.gen = 0 THEN <<"card">>
         ELSE IF i = GameBtn THEN <<"restored">> ELSE <<>>
    ELSE <<"card">> \o (IF i = GameBtn /\ p.gen > 0 THEN <<"restored">> ELSE <<>>)

KeypressListeners(p, i) ==
    IF cards[i].inLaunch
    THEN IF p.gen = 0 THEN <<"card">>
         ELSE IF i = GameBtn THEN <<"restored">> ELSE <<>>
    ELSE <<"card">> \o (IF i = GameBtn THEN Repeat("restored", p.gen) ELSE <<>>)

RECURSIVE DispatchClick(_, _, _)
DispatchClick(p, i, ls) ==
    IF ls = <<>> THEN p
    ELSE DispatchClick(IF Head(ls) = "card" THEN cardClickListener(p, i)
                       ELSE restoredClickListener(p),
                       i, Tail(ls))

RECURSIVE DispatchKeypress(_, _, _, _)
DispatchKeypress(p, i, key, ls) ==
    IF ls = <<>> THEN p
    ELSE DispatchKeypress(IF Head(ls) = "card" THEN cardKeypressListener(p, i, key)
                          ELSE restoredKeypressListener(p, key),
                          i, key, Tail(ls))

\* type: the event; target: the card it was dispatched on (0: not a card);
\* input: what the environment supplied (the key, the answer to confirm(),
\* the browser's answer to the fullscreen call, the text in #search); detail:
\* what the listeners did; exitCalls: calls of window.EJS_emulator.exit()
Event(type, target, input, detail, exitCalls) ==
    [type |-> type, target |-> target, input |-> input, detail |-> detail,
     exitCalls |-> exitCalls]

----------------------------------------------------------------------------
(* Initial state: the page as DOMContentLoaded finds it, lines 8-23. *)

Loaded(m) ==
    /\ markup = m
    /\ launch = originalLaunchHTML
    /\ gen = 0
    /\ built = 0
    /\ session = NoSession
    /\ stale = 0
    /\ loaderScripts = 0
    /\ config = NoConfig
    /\ logoStyle = LogoStyleOf(markup.logoAttr)
    /\ controlsDisplay = ""
    /\ placeholder = Placeholder0
    /\ timers = <<>>
    /\ focus = "none"
    /\ fullscreenEl = "none"
    /\ engine = "none"
    /\ uncaught = FALSE
    /\ lastEvent = Event("DOMContentLoaded", 0, "", "", 0)

Init == \E m \in Markups : Loaded(m)

----------------------------------------------------------------------------
(* Actions: one per event. *)

\* a container can still be built within the bound
Room == built < MaxSessions

Happens(type, target, input, p) ==
    /\ Becomes(p)
    /\ lastEvent' = Event(type, target, input, p.out, p.exitCalls)

\* a click on card i
CardClick(i) ==
    /\ Attached(Page, i)
    /\ IF GameMounted(Page) THEN TRUE ELSE Room
    /\ Happens("click", i, "", DispatchClick(Page, i, ClickListeners(Page, i)))

\* a key pressed with the focus on card i
CardKeypress(i, key) ==
    /\ Attached(Page, i)
    /\ IF GameMounted(Page) THEN TRUE ELSE Room
    /\ Happens("keypress", i, key, DispatchKeypress(Page, i, key, KeypressListeners(Page, i)))

\* a click on the Exit button of the mounted container
BackBtnClick(confirmed, hookThrows) ==
    /\ GameMounted(Page)
    /\ session.bound
    /\ Happens("exit", 0, IF confirmed THEN "confirmed" ELSE "declined",
               backBtnClick(Page, confirmed, hookThrows))

\* a click on the Fullscreen button of the mounted container
FullBtnClick(ok) ==
    /\ GameMounted(Page)
    /\ session.bound
    /\ Happens("fullscreen", 0, IF ok THEN "granted" ELSE "rejected", fullBtnClick(Page, ok))

\* a click on #searchBtn with value typed into #search
SearchBtnClick(value) ==
    /\ IF SearchMatches(value, gameBtnInnerText) THEN TRUE ELSE Len(timers) < MaxTimers
    /\ Happens("search", 0, value, searchBtnClick(Page, value))

\* the oldest pending timeout expires
TimerFires ==
    /\ timers # <<>>
    /\ Happens("timeout", 0, "", timerCallback(Page))

\* the loader script of the container built last fails to load
ScriptFails ==
    /\ session.script = "loading"
    /\ Happens("script-error", 0, "", [scriptOnError(Page, TRUE) EXCEPT !.session.script = "failed"])

\* the loader script of an older container fails to load
StaleScriptFails ==
    /\ stale > 0
    /\ Happens("script-error", 0, "", [scriptOnError(Page, FALSE) EXCEPT !.stale = @ - 1])

\* the loader script of the container built last loads and the engine starts,
\* exposing an exit function or not
ScriptLoads(hook) ==
    /\ session.script = "loading"
    /\ Happens("script-load", 0, "",
               [Page EXCEPT !.session.script = "loaded",
                            !.engine = IF hook THEN "hook" ELSE "nohook"])

\* the same for the loader script of an older container
StaleScriptLoads(hook) ==
    /\ stale > 0
    /\ Happens("script-load", 0, "",
               [Page EXCEPT !.stale = @ - 1,
                            !.engine = IF hook THEN "hook" ELSE "nohook"])

\* the engine's own fullscreen control makes its element the fullscreen element
EngineFullscreen ==
    /\ GameMounted(Page)
    /\ engine # "none"
    /\ fullscreenEl = "none"
    /\ Happens("engine-fullscreen", 0, "", [Page EXCEPT !.fullscreenEl = "other"])

Next ==
    \/ \E i \in Cards : CardClick(i)
    \/ \E i \in Cards, key \in Keys : CardKeypress(i, key)
    \/ \E confirmed \in BOOLEAN, hookThrows \in BOOLEAN : BackBtnClick(confirmed, hookThrows)
    \/ \E ok \in BOOLEAN : FullBtnClick(ok)
    \/ \E value \in Queries : SearchBtnClick(value)
    \/ TimerFires
    \/ ScriptFails
    \/ StaleScriptFails
    \/ \E hook \in BOOLEAN : ScriptLoads(hook)
    \/ \E hook \in BOOLEAN : StaleScriptLoads(hook)
    \/ EngineFullscreen

Spec == Init /\ [][Next]_vars

----------------------------------------------------------------------------
(* The search alone, over more labels and more queries. *)

Labels == { GameBtnLabel, <<"P","l","a","y">>, <<>> }

SearchValues ==
    { <<>>, <<" ">>, <<"\t"," ">>, <<" ","F","U","E"," ">>, <<"e","l"," ","R","o","j","o">>,
      <<"z","z">>, <<"p","o","k","e">>, <<"P","O","K","E","M","O","N","!">>,
      <<" ","B","u","s","c","a","r"," ">>, <<"p","L","A">>, <<"o"," ","f">>,
      <<"P","l"," ","a","y">>, <<"r","o","j">>, <<"f","u","e","g","o","s">> }

InitSearch == \E m \in Markups, l \in Labels : Loaded([m EXCEPT !.label = l])

NextSearch ==
    \/ \E value \in SearchValues : SearchBtnClick(value)
    \/ TimerFires

SpecSearch == InitSearch /\ [][NextSearch]_vars

----------------------------------------------------------------------------
(* Properties *)

\* everything but the record of the last event
Rest == <<markup, launch, gen, built, session, stale, loaderScripts, config, logoStyle,
          controlsDisplay, placeholder, timers, focus, fullscreenEl, engine, uncaught>>

Activation(e) == e.type \in {"click", "keypress"}
Activating(e) == e.type = "click" \/ (e.type = "keypress" /\ e.input \in {" ", "Enter"})

\* what renders: the declarations of the style attribute (an empty attribute
\* and no attribute render alike)
LogoPresentation(style) == [base |-> style.base, compact |-> style.compact]

\* the globals a card stands for, rom and title falling back when absent or empty
GlobalsOf(card) ==
    [ player |-> "#game",
      gameUrl |-> IF cards[card].rom \in {Absent, ""} THEN DefaultRom ELSE cards[card].rom,
      gameName |-> IF cards[card].title \in {Absent, ""} THEN DefaultTitle ELSE cards[card].title,
      core |-> "gba", pathtodata |-> PathToData, startOnLoaded |-> JsTrue,
      disableDatabases |-> JsTrue, disableLocalStorage |-> JsTrue ]

\* C1: at most one session is active: a container is built only while no mount
\* element exists, and while one is mounted it stays the same container until
\* it is removed.
C1_OneSession ==
    [][ /\ built' # built => (launch # "game" /\ built' = built + 1 /\ session'.id = built')
        /\ (launch = "game" /\ launch' = "game") => session'.id = session.id ]_vars

\* C1 witness: an activation was dispatched while a session was mounted
C1_Witness ==
    /\ launch = "game"
    /\ lastEvent.type = "click"
    /\ lastEvent.detail = "guarded"

\* C2: in the menu after a confirmed exit, a click or a Space/Enter keypress on
\* #gameBtn mounts a session for the first card with its globals set, its
\* loader appended and its Exit and Fullscreen buttons bound.
C2_RestoredEntryOpens ==
    [][ ( /\ gen > 0
          /\ launch = "menu"
          /\ Activating(lastEvent')
          /\ lastEvent'.target = GameBtn )
        => ( /\ launch' = "game"
             /\ session'.card = FirstCard
             /\ session'.bound
             /\ session'.script = "loading"
             /\ config' = GlobalsOf(FirstCard) ) ]_vars

C4_EntryIdempotent ==
    [][ (Activation(lastEvent') /\ launch = "game") => UNCHANGED Rest ]_vars

\* C4 witness: Enter was pressed on a card while a session was mounted
C4_Witness ==
    /\ launch = "game"
    /\ lastEvent.type = "keypress"
    /\ lastEvent.input = "Enter"
    /\ lastEvent.detail = "guarded"
    /\ session.script = "loaded"

\* C5: a click on Exit answered with Cancel changes nothing of the page and
\* does not call the engine's exit function.
C5_DeclinedExit ==
    [][ (lastEvent'.type = "exit" /\ lastEvent'.input = "declined")
        => (UNCHANGED Rest /\ lastEvent'.detail = "stayed") ]_vars

\* C5 witness: Exit was declined with the engine running and exposing exit()
C5_Witness ==
    /\ lastEvent.type = "exit"
    /\ lastEvent.input = "declined"
    /\ launch = "game"
    /\ engine = "hook"

\* C6: once no timeout is pending, the placeholder is the one the input had
\* before the first "not found".
C6_PlaceholderRestored == timers = <<>> => placeholder = Placeholder0

\* C7: no listener ends with an uncaught exception.
C7_NoUncaught == ~uncaught

\* C8: when the loader of the mounted session fails, one more error message is
\* in its mount element and the session stays mounted with Exit bound; a
\* confirmed Exit from a session whose loader failed restores the menu.
C8_LoadFailure ==
    [][ /\ (launch = "game" /\ session.script = "loading" /\ lastEvent'.type = "script-error"
            /\ session'.script # "loading")
           => ( /\ launch' = "game"
                /\ session'.errs = session.errs + 1
                /\ session'.id = session.id
                /\ session'.bound )
        /\ (launch = "game" /\ session.script = "failed" /\ session.errs > 0
            /\ lastEvent'.type = "exit" /\ lastEvent'.input = "confirmed")
           => ( /\ launch' = originalLaunchHTML
                /\ LogoPresentation(logoStyle') = LogoPresentation(LogoStyleOf(markup.logoAttr))
                /\ (hasControls => controlsDisplay' = "")
                /\ loaderScripts' = 0 ) ]_vars

\* C8 witness: the menu right after the exit from a session whose loader had failed
C8_Witness ==
    /\ launch = "menu"
    /\ lastEvent.type = "exit"
    /\ session.script = "failed"
    /\ session.errs = 1

\* C9: the globals a loader script found when it was appended are those of the
\* card its session was opened for.
C9_GlobalsBeforeLoader ==
    session.script # "none"
    => (session.card \in Cards /\ session.cfgAtInsert = GlobalsOf(session.card))

\* C9 witness: a second session, opened for another card than the first
C9_Witness ==
    /\ built >= 2
    /\ launch = "game"
    /\ session.script = "loading"
    /\ session.card = 2
    /\ stale = 1

MenuRestored ==
    /\ launch' = originalLaunchHTML
    /\ gen' = gen + 1
    /\ LogoPresentation(logoStyle') = LogoPresentation(LogoStyleOf(markup.logoAttr))
    /\ (hasControls => controlsDisplay' = "")
    /\ loaderScripts' = 0

\* C11: a confirmed Exit calls the engine's exit function once if the engine
\* exposes one and not at all otherwise; whether the function is missing,
\* returns or throws, no exception leaves the listener and the exit completes.
C11_BestEffortShutdown ==
    [][ (lastEvent'.type = "exit" /\ lastEvent'.input = "confirmed")
        => ( /\ lastEvent'.exitCalls = (IF engine = "hook" THEN 1 ELSE 0)
             /\ uncaught' = uncaught
             /\ MenuRestored ) ]_vars

\* C11 witness: the menu right after an Exit during which the hook threw
C11_Witness ==
    /\ launch = "menu"
    /\ lastEvent.type = "exit"
    /\ lastEvent.detail = "hook-threw"
    /\ lastEvent.exitCalls = 1
    /\ ~uncaught

\* C12: the document holds no loader script while the menu is shown and at
\* most one while a session is mounted.
C12_NoScriptAccumulation ==
    /\ launch # "game" => loaderScripts = 0
    /\ launch = "game" => loaderScripts <= 1

\* C12 witness: the menu after the second confirmed Exit
C12_Witness ==
    /\ gen >= 2
    /\ launch = "menu"
    /\ loaderScripts = 0
    /\ session.script = "loading"

\* The search as the contract words it: the query without the white space around
\* it, letters folded to lower case
RECURSIVE StripLeft(_)
StripLeft(s) == IF s # <<>> /\ Head(s) \in WhiteSpace THEN StripLeft(Tail(s)) ELSE s

RECURSIVE StripRight(_)
StripRight(s) ==
    IF s # <<>> /\ s[Len(s)] \in WhiteSpace THEN StripRight(SubSeq(s, 1, Len(s) - 1)) ELSE s

RECURSIVE Folded(_)
Folded(s) ==
    IF s = <<>> THEN <<>>
    ELSE LET up == { i \in DOMAIN UpperCase : UpperCase[i] = Head(s) }
         IN <<IF up = {} THEN Head(s) ELSE LowerCase[CHOOSE i \in up : TRUE]>> \o Folded(Tail(s))

Occurs(sub, str) ==
    \E before \in 0..Len(str) :
        /\ before + Len(sub) <= Len(str)
        /\ \A k \in 1..Len(sub) : str[before + k] = sub[k]

FocusExpected(query, label) ==
    LET q == Folded(StripRight(StripLeft(query)))
    IN \/ q = <<>>
       \/ Occurs(q, Folded(label))
       \/ \E keyword \in {Rojo, Pokemon, Buscar} : Occurs(keyword, q)

\* C13: a click on #searchBtn ends in gameBtn.focus(), the placeholder left
\* alone, exactly when the query, trimmed and lowercased, is empty, occurs in
\* the lowercased label or contains "rojo", "pokemon" or "buscar"; otherwise
\* it sets the "not found" placeholder and focuses nothing.
C13_SearchDecision ==
    [][ lastEvent'.type = "search"
        => IF FocusExpected(lastEvent'.input, markup.label)
           THEN /\ lastEvent'.detail \in {"focus", "focus-detached"}
                /\ placeholder' = placeholder
                /\ timers' = timers
           ELSE /\ lastEvent'.detail = "notfound"
                /\ placeholder' = NotFoundMsg
                /\ focus' = focus ]_vars

\* C13 witness: a query in capitals with blanks around it, found in the label
C13_Witness ==
    /\ lastEvent.type = "search"
    /\ lastEvent.input = <<" ","F","U","E"," ">>
    /\ markup.label = GameBtnLabel
    /\ lastEvent.detail = "focus"
    /\ focus = "gameBtn"

\* C14: while the one pending timeout is that of a first "not found", a
\* matching search leaves placeholder and timeout alone, and the timeout then
\* puts the placeholder of before the search back.
C14_MatchWithinWindow ==
    [][ timers = <<Placeholder0>>
        => /\ (lastEvent'.type = "search" /\ lastEvent'.detail # "notfound")
              => (timers' = timers /\ placeholder' = placeholder)
           /\ lastEvent'.type = "timeout"
              => (placeholder' = Placeholder0 /\ timers' = <<>>) ]_vars

\* C14 witness: a matching search made while the "not found" message is up
C14_Witness ==
    /\ lastEvent.type = "search"
    /\ lastEvent.detail = "focus"
    /\ timers = <<Placeholder0>>
    /\ placeholder = NotFoundMsg

\* C15: the Fullscreen button requests fullscreen on the wrapper whenever the
\* wrapper is not the fullscreen element, and exits fullscreen only when it is.
C15_ToggleDecision ==
    [][ lastEvent'.type = "fullscreen"
        => IF fullscreenEl = "wrapper"
           THEN lastEvent'.detail \in {"exited", "exit-failed"}
           ELSE lastEvent'.detail \in {"requested", "request-failed"} ]_vars

\* C16: a click on the Fullscreen button changes nothing but the fullscreen
\* element, and not even that when the browser rejects the call.
C16_ToggleFrame ==
    [][ lastEvent'.type = "fullscreen"
        => /\ UNCHANGED <<markup, launch, gen, built, session, stale, loaderScripts, config,
                          logoStyle, controlsDisplay, placeholder, timers, focus, engine,
                          uncaught>>
           /\ lastEvent'.input = "rejected" => fullscreenEl' = fullscreenEl ]_vars

\* C16 witness: a rejected fullscreen request during a session
C16_Witness ==
    /\ lastEvent.type = "fullscreen"
    /\ lastEvent.input = "rejected"
    /\ lastEvent.detail = "request-failed"
    /\ launch = "game"

\* C17: whenever a mount element exists, the Exit button of its container has
\* its listener.
C17_ExitAlwaysBound == launch = "game" => session.bound

\* C18: the controls are hidden and the logo reduced exactly while a mount
\* element exists; in the menu the logo renders as loaded.
C18_CompactTracksSession ==
    /\ hasControls => (controlsDisplay = "none" <=> launch = "game")
    /\ hasLogo => (logoStyle.compact <=> launch = "game")
    /\ launch # "game"
       => LogoPresentation(logoStyle) = LogoPresentation(LogoStyleOf(markup.logoAttr))

\* C18 witness: a later session on a page with logo and controls
C18_Witness ==
    /\ gen >= 1
    /\ launch = "game"
    /\ hasControls /\ controlsDisplay = "none"
    /\ hasLogo /\ logoStyle.compact

\* C19: in the menu after a confirmed Exit, a matching search gives the focus
\* to a #gameBtn that is in the document.
C19_FocusCurrentEntry ==
    (gen >= 1 /\ launch = "menu" /\ lastEvent.type = "search" /\ lastEvent.detail # "notfound")
    => (lastEvent.detail = "focus" /\ focus = "gameBtn")

\* C20: the error of a loader whose container has been removed changes nothing
\* of the page but the inside of that container: not #launch, not the
\* container built after it, not the globals.
C20_LateLoaderError ==
    [][ (lastEvent'.type = "script-error" /\ (launch # "game" \/ stale' # stale))
        => /\ UNCHANGED <<markup, launch, gen, built, loaderScripts, config, logoStyle,
                          controlsDisplay, placeholder, timers, focus, fullscreenEl,
                          engine, uncaught>>
           /\ IF stale' # stale
              THEN session' = session
              ELSE session' = [session EXCEPT !.script = "failed", !.errs = @ + 1] ]_vars

\* C20 witness: the loader of the first session failed after the second was opened
C20_Witness ==
    /\ lastEvent.type = "script-error"
    /\ lastEvent.detail = "shown-stale"
    /\ launch = "game"
    /\ built >= 2
    /\ session.errs = 0

====
